---------------------------- MODULE Spec2Model ----------------------------
(***************************************************************************)
(* A model of refresh_playlist.py: one refresh run (main) replaces the     *)
(* tagged clones of a source playlist in the account's library by a new    *)
(* clone.  Strings are sequences of one-character strings, so that the     *)
(* marker written at creation and the pattern that reads it back are two   *)
(* different computations.                                                 *)
(***************************************************************************)
EXTENDS Integers, Sequences, FiniteSets, TLC

(***************************************************************************)
(* Bounds of the model.                                                    *)
(***************************************************************************)
\* refresh runs started one after another
MaxRuns == 2
\* tracks of the long source playlist beyond one full add-items batch
OverBatch == 1
\* processes that can run main
NumProcs == 2

(***************************************************************************)
(* Text.                                                                   *)
(***************************************************************************)
\* Python's None: a one-element sequence no string of characters equals
None == <<"<None>">>

Rep(c, n) == [i \in 1..n |-> c]

Lower == {"a","b","c","d","e","f","g","h","i","j","k","l","m",
          "n","o","p","q","r","s","t","u","v","w","x","y","z"}
Upper == {"A","B","C","D","E","F","G","H","I","J","K","L","M",
          "N","O","P","Q","R","S","T","U","V","W","X","Y","Z"}
Digit == {"0","1","2","3","4","5","6","7","8","9"}
\* the character class [A-Za-z0-9] of the marker pattern
Alnum == Lower \cup Upper \cup Digit
\* what str.strip() removes
Whitespace == {" ", "\n", "\t"}

\* sub occurs in s at position i
OccursAt(s, sub, i) ==
    /\ i >= 1
    /\ i + Len(sub) - 1 <= Len(s)
    /\ SubSeq(s, i, i + Len(sub) - 1) = sub

\* the positions >= from where sub occurs in s
Occurrences(s, sub, from) == {i \in from..(Len(s) - Len(sub) + 1) : OccursAt(s, sub, i)}

Min(S) == CHOOSE x \in S : \A y \in S : x <= y
Max(S) == CHOOSE x \in S : \A y \in S : x >= y

\* Python's `sub in s`
Contains(s, sub) == Occurrences(s, sub, 1) # {}

\* Python's s.startswith(sub)
StartsWith(s, sub) == OccursAt(s, sub, 1)

\* Python's s.split(sep)[0]: the text before the first sep, all of s without one
SplitFirst(s, sep) ==
    IF Contains(s, sep) THEN SubSeq(s, 1, Min(Occurrences(s, sep, 1)) - 1) ELSE s

\* Python's s.split(sep)[1], sep occurring in s: the text between the first sep
\* and the next one after it (or the end of s)
SplitSecond(s, sep) ==
    LET first == Min(Occurrences(s, sep, 1))
        start == first + Len(sep)
        later == Occurrences(s, sep, start)
        stop  == IF later = {} THEN Len(s) ELSE Min(later) - 1
    IN  SubSeq(s, start, stop)

\* Python's s.strip()
Strip(s) ==
    LET keep == {i \in 1..Len(s) : s[i] \notin Whitespace}
    IN  IF keep = {} THEN <<>> ELSE SubSeq(s, Min(keep), Max(keep))

(***************************************************************************)
(* Configuration and helpers of the program.                               *)
(***************************************************************************)
DESC_TAG_PREFIX == <<"a","u","t","o","c","l","o","n","e","_","s","o","u","r","c","e","=">>
\* U+200B, one code point
ZERO_WIDTH_SPACE == <<"\\u200B">>

\* the {22} of the marker pattern
IdLen == 22

WebHost == <<"o","p","e","n",".","s","p","o","t","i","f","y",".","c","o","m">>
PlaylistPath == <<"/","p","l","a","y","l","i","s","t","/">>
UriScheme == <<"s","p","o","t","i","f","y",":","p","l","a","y","l","i","s","t",":">>

\* the query string is not cut off
NormalizeUrl_KeepsQuery(value) ==
    IF Contains(value, WebHost) /\ Contains(value, PlaylistPath)
    THEN SplitFirst(SplitSecond(value, PlaylistPath), <<"/">>)
    ELSE value

NormalizeUrl(value) ==
    IF Contains(value, WebHost) /\ Contains(value, PlaylistPath)
    THEN SplitFirst(SplitFirst(SplitSecond(value, PlaylistPath), <<"?">>), <<"/">>)
    ELSE value

NormalizeUri(value) ==
    IF StartsWith(value, UriScheme) THEN SplitSecond(value, UriScheme) ELSE value

normalize_playlist_id(value) == NormalizeUri(NormalizeUrl(Strip(value)))

\* re.search(r"autoclone_source=([A-Za-z0-9]{22})", desc): the positions of desc
\* where the pattern matches
MarkerMatches(desc) ==
    {i \in 1..Len(desc) :
        /\ OccursAt(desc, DESC_TAG_PREFIX, i)
        /\ i + Len(DESC_TAG_PREFIX) + IdLen - 1 <= Len(desc)
        /\ \A k \in 0..(IdLen - 1) : desc[i + Len(DESC_TAG_PREFIX) + k] \in Alnum}

\* group 1 of the leftmost match
MarkerGroup(desc, i) ==
    SubSeq(desc, i + Len(DESC_TAG_PREFIX), i + Len(DESC_TAG_PREFIX) + IdLen - 1)

\* re.match in place of re.search: the pattern is tried at the start only
extract_source_id_from_desc_Match(desc0) ==
    LET desc == IF desc0 = None THEN <<>> ELSE desc0
        hits == MarkerMatches(desc) \cap {1}
    IN  IF hits = {} THEN None ELSE MarkerGroup(desc, Min(hits))

extract_source_id_from_desc(desc0) ==
    LET desc == IF desc0 = None THEN <<>> ELSE desc0
        hits == MarkerMatches(desc)
    IN  IF hits = {} THEN None ELSE MarkerGroup(desc, Min(hits))

\* a description that is blank indeed: the marker is left out
hidden_desc_Blank(source_id) == ZERO_WIDTH_SPACE

\* main's hidden_desc
hidden_desc(source_id) == ZERO_WIDTH_SPACE \o DESC_TAG_PREFIX \o source_id


\* the slice step of main's add-items loop
BatchSize == 100

\* the payload ceiling of the platform's cover upload, in bytes
CoverCeiling == 256000

\* len(base64.b64encode(b)) for len(b) = n
Base64Len(n) == 4 * ((n + 2) \div 3)

UrlPrefix == <<"h","t","t","p","s",":","/","/">> \o WebHost \o PlaylistPath

\* main's spotify_url
spotify_url(id) == UrlPrefix \o id

(***************************************************************************)
(* The platform: playlists by ID, and the account's library, a list of     *)
(* playlist IDs in listing order.  tag and by are history fields: the      *)
(* source a description was written for, and the run that created the      *)
(* playlist (0: it was there before the first run).                        *)
(***************************************************************************)
Track(n)   == [has_track |-> TRUE,  uri |-> <<"spotify", "track", n>>]
Episode(n) == [has_track |-> TRUE,  uri |-> <<"spotify", "episode", n>>]
Local(n)   == [has_track |-> TRUE,  uri |-> <<"spotify", "local", n>>]
NoUri      == [has_track |-> TRUE,  uri |-> <<>>]
NoTrack    == [has_track |-> FALSE, uri |-> <<>>]

SrcX == Rep("X", IdLen)
SrcY == Rep("Y", IdLen)
OldA == Rep("A", IdLen)
OldB == Rep("B", IdLen)
OtherC == Rep("C", IdLen)
OtherU == Rep("U", IdLen)
OtherT == Rep("T", IdLen)

DigitChar == <<"1","2","3","4","5","6","7","8","9">>
\* the ID the platform gives the k-th playlist it creates
FreshId(k) == Rep("n", IdLen - 1) \o <<DigitChar[k]>>

MixedItems == <<Track(1), NoTrack, Episode(2), Track(3), NoUri, Local(4), Track(5)>>
LongItems == [i \in 1..(BatchSize + OverBatch) |-> Track(i)]
FullItems == [i \in 1..BatchSize |-> Track(i)]
SourceItemChoices == {<<>>, MixedItems, FullItems, LongItems}

SmallImage == [url |-> "img-640", bytes |-> 90000]
LargeImage == [url |-> "img-big", bytes |-> 300000]
SourceImageChoices == {<<>>, <<SmallImage>>, <<LargeImage>>}

\* a description a person wrote around the marker
LeadText == <<"r","e","f","r","e","s","h","e","d"," ">>
TrailText == <<"2","x"," ","d","a","i","l","y">>

Playlist(name, desc, items, images, tag, by) ==
    [name |-> name, desc |-> desc, items |-> items, images |-> images,
     tag |-> tag, by |-> by]

\* a description of the source that names the source itself
SelfTaggedDesc == LeadText \o DESC_TAG_PREFIX \o SrcX

\* the playlists that may be in the library before the first run
Earlier ==
    (OldA :> Playlist("Road Trip", hidden_desc(SrcX), <<Track(1)>>, <<>>, SrcX, 0))
 @@ (OldB :> Playlist("Road Trip", LeadText \o hidden_desc(SrcX) \o TrailText,
                      <<>>, <<SmallImage>>, SrcX, 0))
 @@ (OtherC :> Playlist("Focus", hidden_desc(SrcY), <<Track(7)>>, <<>>, SrcY, 0))
 @@ (OtherU :> Playlist("Mix", None, <<Track(8)>>, <<>>, None, 0))
 @@ (OtherT :> Playlist("Road Trip", DESC_TAG_PREFIX \o SubSeq(SrcX, 1, IdLen - 1),
                        <<>>, <<>>, None, 0))

TaggedOrder == <<OldA, OtherC, OldB>>
UnrelatedOrder == <<OtherU, OtherT>>

\* the subsequences of s
RECURSIVE SubSeqs(_)
SubSeqs(s) ==
    IF s = <<>> THEN {<<>>}
    ELSE LET rest == SubSeqs(Tail(s))
         IN  rest \cup {<<Head(s)>> \o r : r \in rest}

\* the reference forms of the source in SOURCE_PLAYLIST_ID
SourceRefs ==
    { <<" ">> \o SrcX \o <<"\n">>,
      <<"h","t","t","p","s",":","/","/">> \o WebHost \o PlaylistPath \o SrcX
          \o <<"?","s","i","=","a","b">>,
      UriScheme \o SrcX }

Procs == 1..NumProcs
\* the process of the scheduled, one-at-a-time runs
SeqProcs == {1}

VARIABLES
    SOURCE_PLAYLIST_ID,  \* the configured source, normalised
    playlists,           \* the platform's playlists by ID
    library,             \* the account's library: playlist IDs in listing order
    latest,              \* the URL in latest.html, None before it is written
    nextId,              \* the playlists the platform has created so far
    runs,                \* the runs started so far
    prev,                \* how the previous run ended and what it created
    overlapped,          \* a run has started while another was under way
    begun,               \* each process's run: its number, and the library and
                         \* latest.html it started from
    pc,                  \* each process's place in main
    source_name,
    found,               \* what find_clones returned
    clones,              \* the list delete_old_clones_keep_newest unfollows
    idx,                 \* its loop index
    track_uris,
    new_playlist,        \* the ID of the playlist the run created, None before
    image_bytes,         \* the size of the downloaded cover
    batch_i,             \* the i of the add-items loop
    calls,               \* the calls the run has issued, in order
    env_missing,         \* the required environment values that are not set
    config,              \* "unset", then "ok" or "error": the module-level code
    m_id, m_form,        \* the bare ID and the form SOURCE_PLAYLIST_ID was written in
    m_pc, m_raw, m_lead, m_trail, m_sid, m_desc, m_out

worldVars == <<playlists, library, latest, nextId>>
localVars == <<source_name, found, clones, idx, track_uris, new_playlist,
               image_bytes, batch_i>>
markerVars == <<env_missing, config, m_id, m_form, m_pc, m_raw, m_lead, m_trail,
                m_sid, m_desc, m_out>>
vars == <<SOURCE_PLAYLIST_ID, playlists, library, latest, nextId, runs, prev,
          overlapped, begun, pc, source_name, found, clones, idx, track_uris,
          new_playlist, image_bytes, batch_i, calls, env_missing, config, m_id,
          m_form, m_pc, m_raw, m_lead, m_trail, m_sid, m_desc, m_out>>

Terminal == {"done", "failed", "crashed"}
\* the places of main between its start and its end
Running == {"token", "user", "source", "scan", "unfollow", "tracks", "create",
            "cover_list", "cover_get", "cover_put", "add_items", "write"}


(***************************************************************************)
(* The helpers of main.                                                    *)
(***************************************************************************)
\* get_all_track_uris: the URIs of the items that wrap a track with a
\* spotify:track: URI, in order
IsTrackItem(item) ==
    /\ item.has_track
    /\ item.uri # <<>>
    /\ Len(item.uri) >= 2 /\ item.uri[1] = "spotify" /\ item.uri[2] = "track"

get_all_track_uris(items) ==
    LET kept == SelectSeq(items, IsTrackItem)
    IN  [i \in 1..Len(kept) |-> kept[i].uri]

\* any marker counts, whatever source it names
find_clones_AnyMarker(lib, store, source_id) ==
    SelectSeq(lib, LAMBDA pid :
        /\ pid # <<>> /\ pid # None
        /\ extract_source_id_from_desc(store[pid].desc) # None)

\* the listing stops at the first playlist tagged for the source
find_clones_FirstOnly(lib, store, source_id) ==
    LET hits == SelectSeq(lib, LAMBDA pid :
                    /\ pid # <<>> /\ pid # None
                    /\ extract_source_id_from_desc(store[pid].desc) = source_id)
    IN  IF hits = <<>> THEN <<>> ELSE <<hits[1]>>

\* find_clones over the library listing lib, store giving each playlist's fields
find_clones(lib, store, source_id) ==
    SelectSeq(lib, LAMBDA pid :
        /\ pid # <<>> /\ pid # None
        /\ extract_source_id_from_desc(store[pid].desc) = source_id)

\* the filter left out
WithoutSource_Unfiltered(cl, source_id) == cl

\* the filter of delete_old_clones_keep_newest
WithoutSource(cl, source_id) == SelectSeq(cl, LAMBDA pid : pid # source_id)

\* the loop is never entered
AfterScan_NoLoop(cl) == "tracks"

\* delete_old_clones_keep_newest returns at once on an empty list
AfterScan(cl) == IF cl = <<>> THEN "tracks" ELSE "unfollow"

\* the loop keeps the last clone of the list, as the function's name says
AfterUnfollow_KeepLast(i, cl) == IF i + 1 >= Len(cl) THEN "tracks" ELSE "unfollow"

\* the source is read again once the loop has ended
AfterUnfollow_ThenSource(i, cl) == IF i + 1 > Len(cl) THEN "source" ELSE "unfollow"

\* its loop unfollows every element of the list
AfterUnfollow(i, cl) == IF i + 1 > Len(cl) THEN "tracks" ELSE "unfollow"

\* an exception of current_user_unfollow_playlist is not caught
OnUnfollowError == "failed"

\* the upload goes to the first argument of copy_playlist_cover
CoverTarget_Swapped(source_id, target_id) == source_id

\* copy_playlist_cover(sp, SOURCE_PLAYLIST_ID, new_playlist["id"]) uploads to
\* its target_id
CoverTarget(source_id, target_id) == target_id

\* the exception of copy_playlist_cover is not caught
OnCoverError_Fatal(uris) == "failed"

\* latest.html is written without the loop having run
AfterCover_SkipsBatches(uris) == "write"

\* main's loop for i in range(0, len(track_uris), 100)
AfterCover(uris) == IF Len(uris) = 0 THEN "write" ELSE "add_items"

\* copy_playlist_cover raised: main's except Exception prints and goes on
OnCoverError(uris) == AfterCover(uris)

\* the loop turns once more when i + 100 = len(track_uris)
AfterAddItems_Inclusive(i, uris) ==
    IF i + BatchSize <= Len(uris) THEN "add_items" ELSE "write"

AfterAddItems(i, uris) == IF i + BatchSize < Len(uris) THEN "add_items" ELSE "write"

\* an exception of playlist_add_items is not caught
OnAddItemsError == "failed"

\* track_uris[i:i + 99]
Batch_Short(uris, i) ==
    SubSeq(uris, i + 1,
           IF i + BatchSize - 1 < Len(uris) THEN i + BatchSize - 1 ELSE Len(uris))

\* track_uris[i:i + 100], i counted from 0
Batch(uris, i) ==
    SubSeq(uris, i + 1, IF i + BatchSize < Len(uris) THEN i + BatchSize ELSE Len(uris))

\* the batches are appended before the cover copy
AfterCreate_TracksFirst == "add_items"

\* main's statements after the token, in order
AfterToken == "user"
AfterUser == "source"
AfterSource == "scan"
AfterTracks == "create"
AfterCreate == "cover_list"

Call(op, target, ok, arg) == [op |-> op, target |-> target, ok |-> ok, arg |-> arg]

Logged(p, op, target, ok, arg) ==
    calls' = [calls EXCEPT ![p] = Append(@, Call(op, target, ok, arg))]

Goto(p, where) == pc' = [pc EXCEPT ![p] = where]

Remove(lib, pid) == SelectSeq(lib, LAMBDA x : x # pid)

(***************************************************************************)
(* One run of main by process p, one action per remote call.               *)
(***************************************************************************)
Start(p) ==
    /\ config = "ok"
    /\ pc[p] \in Terminal \cup {"idle"}
    /\ runs < MaxRuns
    /\ runs' = runs + 1
    /\ begun' = [begun EXCEPT ![p] =
                     [run |-> runs + 1, library |-> library, latest |-> latest]]
    /\ overlapped' = (overlapped \/ \E q \in Procs \ {p} : pc[q] \in Running)
    /\ prev' = IF pc[p] = "idle" THEN prev
               ELSE [status |-> pc[p], created |-> new_playlist[p]]
    /\ Goto(p, "token")
    /\ source_name' = [source_name EXCEPT ![p] = None]
    /\ found' = [found EXCEPT ![p] = <<>>]
    /\ clones' = [clones EXCEPT ![p] = <<>>]
    /\ idx' = [idx EXCEPT ![p] = 1]
    /\ track_uris' = [track_uris EXCEPT ![p] = <<>>]
    /\ new_playlist' = [new_playlist EXCEPT ![p] = None]
    /\ image_bytes' = [image_bytes EXCEPT ![p] = 0]
    /\ batch_i' = [batch_i EXCEPT ![p] = 0]
    /\ calls' = [calls EXCEPT ![p] = <<>>]
    /\ UNCHANGED <<SOURCE_PLAYLIST_ID, worldVars, markerVars>>

\* spotify_client: get_access_token's POST
GetToken(p) ==
    /\ pc[p] = "token"
    /\ \E ok \in BOOLEAN :
        /\ Logged(p, "token", None, ok, <<>>)
        /\ Goto(p, IF ok THEN AfterToken ELSE "failed")
    /\ UNCHANGED <<SOURCE_PLAYLIST_ID, worldVars, runs, prev, overlapped, begun, localVars, markerVars>>

\* sp.current_user()
CurrentUser(p) ==
    /\ pc[p] = "user"
    /\ \E ok \in BOOLEAN :
        /\ Logged(p, "current_user", None, ok, <<>>)
        /\ Goto(p, IF ok THEN AfterUser ELSE "failed")
    /\ UNCHANGED <<SOURCE_PLAYLIST_ID, worldVars, runs, prev, overlapped, begun, localVars, markerVars>>

\* sp.playlist(SOURCE_PLAYLIST_ID) and its name
ReadSource(p) ==
    /\ pc[p] = "source"
    /\ \E reply \in BOOLEAN :
        LET ok == reply /\ SOURCE_PLAYLIST_ID \in DOMAIN playlists
        IN  /\ Logged(p, "playlist", SOURCE_PLAYLIST_ID, ok, <<>>)
            /\ Goto(p, IF ok THEN AfterSource ELSE "failed")
            /\ source_name' = [source_name EXCEPT ![p] =
                   IF ok THEN playlists[SOURCE_PLAYLIST_ID].name ELSE @]
    /\ UNCHANGED <<SOURCE_PLAYLIST_ID, worldVars, runs, prev, overlapped, begun, found, clones, idx,
                   track_uris, new_playlist, image_bytes, batch_i, markerVars>>

\* delete_old_clones_keep_newest up to its loop: the listing, find_clones and
\* the filter
ScanLibrary(p) ==
    /\ pc[p] = "scan"
    /\ \E ok \in BOOLEAN :
        LET hits == find_clones(library, playlists, SOURCE_PLAYLIST_ID)
            cl   == WithoutSource(hits, SOURCE_PLAYLIST_ID)
        IN  /\ Logged(p, "current_user_playlists", None, ok, <<>>)
            /\ found' = [found EXCEPT ![p] = IF ok THEN hits ELSE @]
            /\ clones' = [clones EXCEPT ![p] = IF ok THEN cl ELSE @]
            /\ Goto(p, IF ok THEN AfterScan(cl) ELSE "failed")
    /\ idx' = [idx EXCEPT ![p] = 1]
    /\ UNCHANGED <<SOURCE_PLAYLIST_ID, worldVars, runs, prev, overlapped, begun, source_name,
                   track_uris, new_playlist, image_bytes, batch_i, markerVars>>

\* one turn of its loop: sp.current_user_unfollow_playlist(pid)
Unfollow(p) ==
    /\ pc[p] = "unfollow"
    /\ \E ok \in BOOLEAN :
        LET pid == clones[p][idx[p]]
        IN  /\ Logged(p, "unfollow", pid, ok, <<>>)
            /\ library' = IF ok THEN Remove(library, pid) ELSE library
            /\ Goto(p, IF ok THEN AfterUnfollow(idx[p], clones[p]) ELSE OnUnfollowError)
            /\ idx' = [idx EXCEPT ![p] = IF ok THEN @ + 1 ELSE @]
    /\ UNCHANGED <<SOURCE_PLAYLIST_ID, playlists, latest, nextId, runs, prev, overlapped, begun,
                   source_name, found, clones, track_uris, new_playlist,
                   image_bytes, batch_i, markerVars>>

\* get_all_track_uris(sp, SOURCE_PLAYLIST_ID)
GetTracks(p) ==
    /\ pc[p] = "tracks"
    /\ \E reply \in BOOLEAN :
        LET ok == reply /\ SOURCE_PLAYLIST_ID \in DOMAIN playlists
        IN  /\ Logged(p, "playlist_items", SOURCE_PLAYLIST_ID, ok, <<>>)
            /\ track_uris' = [track_uris EXCEPT ![p] =
                   IF ok THEN get_all_track_uris(playlists[SOURCE_PLAYLIST_ID].items)
                   ELSE @]
            /\ Goto(p, IF ok THEN AfterTracks ELSE "failed")
    /\ UNCHANGED <<SOURCE_PLAYLIST_ID, worldVars, runs, prev, overlapped, begun, source_name, found,
                   clones, idx, new_playlist, image_bytes, batch_i, markerVars>>

\* sp.user_playlist_create(name=source_name, public=False, description=hidden_desc)
Create(p) ==
    /\ pc[p] = "create"
    /\ \E ok \in BOOLEAN :
        LET id == FreshId(nextId + 1)
        IN  /\ Logged(p, "create", IF ok THEN id ELSE None, ok, <<>>)
            /\ nextId' = IF ok THEN nextId + 1 ELSE nextId
            /\ playlists' =
                   IF ok
                   THEN playlists @@ (id :> Playlist(source_name[p],
                            hidden_desc(SOURCE_PLAYLIST_ID), <<>>, <<>>,
                            SOURCE_PLAYLIST_ID, begun[p].run))
                   ELSE playlists
            /\ library' = IF ok THEN <<id>> \o library ELSE library
            /\ new_playlist' = [new_playlist EXCEPT ![p] = IF ok THEN id ELSE @]
            /\ Goto(p, IF ok THEN AfterCreate ELSE "failed")
    /\ UNCHANGED <<SOURCE_PLAYLIST_ID, latest, runs, prev, overlapped, begun, source_name, found,
                   clones, idx, track_uris, image_bytes, batch_i, markerVars>>

\* copy_playlist_cover: sp.playlist_cover_image(source_id); main catches its
\* exception, and it returns when there is no image
CoverList(p) ==
    /\ pc[p] = "cover_list"
    /\ \E ok \in BOOLEAN :
        LET images == playlists[SOURCE_PLAYLIST_ID].images
        IN  /\ Logged(p, "cover_image", SOURCE_PLAYLIST_ID, ok, <<>>)
            /\ Goto(p, IF ~ok THEN OnCoverError(track_uris[p])
                       ELSE IF images # <<>> THEN "cover_get"
                       ELSE AfterCover(track_uris[p]))
    /\ UNCHANGED <<SOURCE_PLAYLIST_ID, worldVars, runs, prev, overlapped, begun, localVars, markerVars>>

\* copy_playlist_cover: requests.get(image_url) and raise_for_status
CoverDownload(p) ==
    /\ pc[p] = "cover_get"
    /\ \E ok \in BOOLEAN :
        LET img == playlists[SOURCE_PLAYLIST_ID].images[1]
        IN  /\ Logged(p, "download", SOURCE_PLAYLIST_ID, ok, <<>>)
            /\ image_bytes' = [image_bytes EXCEPT ![p] = IF ok THEN img.bytes ELSE @]
            /\ Goto(p, IF ok THEN "cover_put" ELSE OnCoverError(track_uris[p]))
    /\ UNCHANGED <<SOURCE_PLAYLIST_ID, worldVars, runs, prev, overlapped, begun, source_name, found,
                   clones, idx, track_uris, new_playlist, batch_i, markerVars>>

\* copy_playlist_cover: sp.playlist_upload_cover_image(target_id, image_b64);
\* the platform refuses a payload over its ceiling
CoverUpload(p) ==
    /\ pc[p] = "cover_put"
    /\ \E reply \in BOOLEAN :
        LET size == Base64Len(image_bytes[p])
            ok   == reply /\ size <= CoverCeiling
            id   == CoverTarget(SOURCE_PLAYLIST_ID, new_playlist[p])
        IN  /\ Logged(p, "upload_cover", id, ok, <<size>>)
            /\ playlists' =
                   IF ok
                   THEN [playlists EXCEPT ![id].images =
                            <<[url |-> "img-copy", bytes |-> image_bytes[p]]>>]
                   ELSE playlists
            /\ Goto(p, IF ok THEN AfterCover(track_uris[p])
                       ELSE OnCoverError(track_uris[p]))
    /\ UNCHANGED <<SOURCE_PLAYLIST_ID, library, latest, nextId, runs, prev, overlapped, begun,
                   localVars, markerVars>>

\* one turn of main's loop: sp.playlist_add_items(new_playlist["id"], batch)
AddItems(p) ==
    /\ pc[p] = "add_items"
    /\ \E ok \in BOOLEAN :
        LET id    == new_playlist[p]
            batch == Batch(track_uris[p], batch_i[p])
        IN  /\ Logged(p, "add_items", id, ok, batch)
            /\ playlists' =
                   IF ok
                   THEN [playlists EXCEPT ![id].items =
                            @ \o [k \in 1..Len(batch) |->
                                     [has_track |-> TRUE, uri |-> batch[k]]]]
                   ELSE playlists
            /\ batch_i' = [batch_i EXCEPT ![p] = IF ok THEN @ + BatchSize ELSE @]
            /\ Goto(p, IF ok THEN AfterAddItems(batch_i[p], track_uris[p])
                       ELSE OnAddItemsError)
    /\ UNCHANGED <<SOURCE_PLAYLIST_ID, library, latest, nextId, runs, prev, overlapped, begun,
                   source_name, found, clones, idx, track_uris, new_playlist,
                   image_bytes, markerVars>>

\* main writes latest.html
WriteLatest(p) ==
    /\ pc[p] = "write"
    /\ Logged(p, "write_latest", new_playlist[p], TRUE, <<>>)
    /\ latest' = spotify_url(new_playlist[p])
    /\ Goto(p, "done")
    /\ UNCHANGED <<SOURCE_PLAYLIST_ID, playlists, library, nextId, runs, prev, overlapped, begun,
                   localVars, markerVars>>

\* the process is killed between two calls
Crash(p) ==
    /\ pc[p] \notin Terminal \cup {"idle"}
    /\ Goto(p, "crashed")
    /\ UNCHANGED <<SOURCE_PLAYLIST_ID, worldVars, runs, prev, overlapped, begun, localVars, calls,
                   markerVars>>

Run(p) ==
    \/ Start(p) \/ GetToken(p) \/ CurrentUser(p) \/ ReadSource(p)
    \/ ScanLibrary(p) \/ Unfollow(p) \/ GetTracks(p) \/ Create(p)
    \/ CoverList(p) \/ CoverDownload(p) \/ CoverUpload(p) \/ AddItems(p)
    \/ WriteLatest(p) \/ Crash(p)

MarkerIdle ==
    /\ env_missing = {} /\ config = "ok" /\ m_id = None /\ m_form = "none"
    /\ m_pc = "off" /\ m_raw = <<>> /\ m_lead = <<>> /\ m_trail = <<>>
    /\ m_sid = None /\ m_desc = None /\ m_out = None

MainIdle ==
    /\ runs = 0
    /\ prev = [status |-> "none", created |-> None]
    /\ overlapped = FALSE
    /\ begun = [p \in Procs |-> [run |-> 0, library |-> <<>>, latest |-> None]]
    /\ pc = [p \in Procs |-> "idle"]
    /\ source_name = [p \in Procs |-> None]
    /\ found = [p \in Procs |-> <<>>]
    /\ clones = [p \in Procs |-> <<>>]
    /\ idx = [p \in Procs |-> 1]
    /\ track_uris = [p \in Procs |-> <<>>]
    /\ new_playlist = [p \in Procs |-> None]
    /\ image_bytes = [p \in Procs |-> 0]
    /\ batch_i = [p \in Procs |-> 0]
    /\ calls = [p \in Procs |-> <<>>]
    /\ latest = None
    /\ nextId = 0

\* the module-level configuration, and any library the account may hold: some
\* of the earlier tagged playlists, the unrelated ones or not, and the source
\* itself absent from the library, in it, or in it with its own ID in a marker
Init ==
    /\ SOURCE_PLAYLIST_ID \in {normalize_playlist_id(r) : r \in SourceRefs}
    /\ \E lib \in SubSeqs(TaggedOrder), more \in {<<>>, UnrelatedOrder},
          own \in {"absent", "plain", "tagged"},
          items \in SourceItemChoices, images \in SourceImageChoices :
         /\ library = lib \o more \o (IF own = "absent" THEN <<>> ELSE <<SrcX>>)
         /\ playlists = Earlier @@ (SrcX :>
                IF own = "tagged"
                THEN Playlist("Road Trip", SelfTaggedDesc, items, images, SrcX, 0)
                ELSE Playlist("Road Trip", <<>>, items, images, None, 0))
    /\ MainIdle
    /\ MarkerIdle

Next == \E p \in SeqProcs : Run(p)

Spec == Init /\ [][Next]_vars


(***************************************************************************)
(* The marker on its own: a configured source reference is normalised, the *)
(* description main writes for it is built, text is put around it in the   *)
(* description field, and the next run's extraction reads it back.         *)
(***************************************************************************)
ValidId == <<"3","7","i","9","d","Q","Z","F","1","D","X","c","B","W","I","G","o","Y","B","M","5","M">>

HttpsScheme == <<"h","t","t","p","s",":","/","/">>
LegacyUriScheme == <<"s","p","o","t","i","f","y",":","u","s","e","r",":","a","l",":",
                     "p","l","a","y","l","i","s","t",":">>

\* the forms normalize_playlist_id is written for ...
ValidForms == {"raw", "padded", "url", "url_query", "url_path", "uri", "uri_padded"}
\* ... and the older URI form that names the owner
RefForms == ValidForms \cup {"legacy_uri"}

\* a reference to the playlist id in the given form
Ref(form, id) ==
    CASE form = "raw" -> id
      [] form = "padded" -> <<" ">> \o id \o <<"\n">>
      [] form = "url" -> HttpsScheme \o WebHost \o PlaylistPath \o id
      [] form = "url_query" ->
             HttpsScheme \o WebHost \o PlaylistPath \o id \o <<"?","s","i","=","a","b">>
      [] form = "url_path" -> HttpsScheme \o WebHost \o PlaylistPath \o id \o <<"/","x">>
      [] form = "uri" -> UriScheme \o id
      [] form = "uri_padded" -> <<"\t">> \o UriScheme \o id \o <<" ">>
      [] form = "legacy_uri" -> LegacyUriScheme \o id

\* two playlist IDs, and two strings that are none: too short, too long
BareIds == {SrcX, ValidId, <<"a","b","c">>, SrcX \o <<"Z">>}

\* values of SOURCE_PLAYLIST_ID the module-level code takes
ConfigValues == {Ref(form, id) : form \in RefForms, id \in BareIds}

\* the environment values the module-level code reads
EnvKeys == {"SOURCE_PLAYLIST_ID", "SPOTIFY_CLIENT_ID", "SPOTIFY_CLIENT_SECRET",
            "SPOTIFY_REFRESH_TOKEN"}

LeadNoise == { <<>>, LeadText, <<"a","u","t","o","c","l","o","n","e","_">>,
               DESC_TAG_PREFIX \o <<"-"," ">>,
               DESC_TAG_PREFIX \o SrcY \o <<" ">> }
TrailNoise == { <<>>, TrailText, <<" ","o","k">>, ZERO_WIDTH_SPACE }

\* the process before its module-level code has run
Unconfigured ==
    /\ m_pc = "env"
    /\ config = "unset"
    /\ \E form \in RefForms, id \in BareIds :
         /\ m_form = form
         /\ m_id = id
         /\ m_raw = Ref(form, id)
    /\ m_sid = None /\ m_desc = None /\ m_out = None
    /\ SOURCE_PLAYLIST_ID = None

InitMarker ==
    /\ Unconfigured
    /\ env_missing = {}
    /\ m_lead \in LeadNoise
    /\ m_trail \in TrailNoise
    /\ playlists = Earlier
    /\ library = <<>>
    /\ MainIdle

mainVars == <<playlists, library, latest, nextId, runs, prev, overlapped, begun, pc,
              source_name,
              found, clones, idx, track_uris, new_playlist, image_bytes, batch_i,
              calls>>

\* the module-level code: os.environ[...] raises KeyError for a value that is
\* not set; SOURCE_PLAYLIST_ID = normalize_playlist_id(os.environ[...].strip())
LoadConfig ==
    /\ m_pc = "env"
    /\ IF env_missing # {}
       THEN /\ config' = "error"
            /\ m_pc' = "config_error"
            /\ UNCHANGED <<m_sid, SOURCE_PLAYLIST_ID>>
       ELSE /\ config' = "ok"
            /\ m_pc' = "config"
            /\ m_sid' = normalize_playlist_id(Strip(m_raw))
            /\ SOURCE_PLAYLIST_ID' = normalize_playlist_id(Strip(m_raw))
    /\ UNCHANGED <<mainVars, env_missing, m_id, m_form, m_raw, m_lead, m_trail,
                   m_desc, m_out>>

\* main builds hidden_desc for the configured source
WriteMarker ==
    /\ m_pc = "config"
    /\ m_desc' = hidden_desc(SOURCE_PLAYLIST_ID)
    /\ m_pc' = "written"
    /\ UNCHANGED <<mainVars, SOURCE_PLAYLIST_ID, env_missing, config, m_id,
                   m_form, m_raw, m_lead, m_trail, m_sid, m_out>>

\* the description field gets text before and after what was written
EditDescription ==
    /\ m_pc = "written"
    /\ m_desc' = m_lead \o m_desc \o m_trail
    /\ m_pc' = "stored"
    /\ UNCHANGED <<mainVars, SOURCE_PLAYLIST_ID, env_missing, config, m_id,
                   m_form, m_raw, m_lead, m_trail, m_sid, m_out>>

\* the next run's find_clones reads the description
ReadMarker ==
    /\ m_pc = "stored"
    /\ m_out' = extract_source_id_from_desc(m_desc)
    /\ m_pc' = "read"
    /\ UNCHANGED <<mainVars, SOURCE_PLAYLIST_ID, env_missing, config, m_id,
                   m_form, m_raw, m_lead, m_trail, m_sid, m_desc>>

NextMarker == LoadConfig \/ WriteMarker \/ EditDescription \/ ReadMarker

SpecMarker == InitMarker /\ [][NextMarker]_vars


(***************************************************************************)
(* What the claims speak of.                                               *)
(***************************************************************************)
Range(s) == {s[i] : i \in 1..Len(s)}

HasCalls(p) == calls[p] # <<>>
LastCall(p) == calls[p][Len(calls[p])]

\* the positions of the calls of p with operation op
CallsOf(p, op) == {i \in 1..Len(calls[p]) : calls[p][i].op = op}

\* the library listing is the last call of p, and it succeeded: the library is
\* still the one find_clones read
JustScanned(p) ==
    /\ HasCalls(p)
    /\ LastCall(p).op = "current_user_playlists"
    /\ LastCall(p).ok

\* the playlists of the library, the source apart, whose description marker
\* extracts to the source ID
RecognisedClones ==
    {pid \in Range(library) :
        /\ pid # SOURCE_PLAYLIST_ID
        /\ extract_source_id_from_desc(playlists[pid].desc) = SOURCE_PLAYLIST_ID}

\* the playlists of the library the current run created
CreatedThisRun == {pid \in Range(library) : playlists[pid].by = runs}

ItemUris(items) == [i \in 1..Len(items) |-> items[i].uri]

\* the track sequence of the source: its items that are tracks, in order
SourceTracks ==
    LET items == playlists[SOURCE_PLAYLIST_ID].items
        keep  == SelectSeq(items, LAMBDA it : it.has_track /\ Len(it.uri) = 3
                                              /\ it.uri[2] = "track")
    IN  ItemUris(keep)

(***************************************************************************)
(* C1: after a run of main that completes, with no other run overlapping,  *)
(* the library holds exactly one playlist recognised as a clone of the     *)
(* source, and it is the playlist that run created.                        *)
(***************************************************************************)
C1_OneCloneAfterRun ==
    \A p \in Procs :
        pc[p] = "done" =>
            /\ RecognisedClones = {new_playlist[p]}
            /\ playlists[new_playlist[p]].by = runs

\* a first run has unfollowed two earlier clones and completed, an unrelated
\* tagged playlist staying in the library
C1_Witness ==
    /\ pc[1] = "done"
    /\ runs = 1
    /\ Cardinality({i \in CallsOf(1, "unfollow") : calls[1][i].ok}) = 2
    /\ OtherC \in Range(library)
    /\ OtherT \in Range(library)

(***************************************************************************)
(* C2: no unfollow call of delete_old_clones_keep_newest has the source    *)
(* playlist as its target, also when the source is in the library with a   *)
(* marker that extracts to its own ID.                                     *)
(***************************************************************************)
C2_SourceNeverUnfollowed ==
    \A p \in Procs :
        \A i \in CallsOf(p, "unfollow") : calls[p][i].target # SOURCE_PLAYLIST_ID

\* find_clones has returned the source among the clones, and the loop has
\* unfollowed everything it was given
C2_Witness ==
    /\ SOURCE_PLAYLIST_ID \in Range(found[1])
    /\ Len(clones[1]) = 2
    /\ Cardinality(CallsOf(1, "unfollow")) = 2
    /\ SOURCE_PLAYLIST_ID \in Range(library)

(***************************************************************************)
(* C3: a failed unfollow does not abort the run: the run never ends failed *)
(* with a failed unfollow as its last call.                                *)
(***************************************************************************)
C3_DeletionIsBestEffort ==
    \A p \in Procs :
        (pc[p] = "failed" /\ HasCalls(p)) => LastCall(p).op # "unfollow"

(***************************************************************************)
(* C4, as claimed: the calls of a run follow the order locate and delete   *)
(* (2), read the source (3), create (4), append the batches (5), cover     *)
(* copy (6), redirect artifact (7).                                        *)
(***************************************************************************)
ClaimedStep(op) ==
    CASE op \in {"token", "current_user"} -> 1
      [] op \in {"current_user_playlists", "unfollow"} -> 2
      [] op \in {"playlist", "playlist_items"} -> 3
      [] op = "create" -> 4
      [] op = "add_items" -> 5
      [] op \in {"cover_image", "download", "upload_cover"} -> 6
      [] op = "write_latest" -> 7

CoverOps == {"cover_image", "download", "upload_cover"}

ComesAfter(op) ==
    CASE op = "token" -> {}
      [] op = "current_user" -> {"token"}
      [] op = "playlist" -> {"current_user"}
      [] op = "current_user_playlists" -> {"playlist"}
      [] op = "unfollow" -> {"current_user_playlists", "unfollow"}
      [] op = "playlist_items" -> {"current_user_playlists", "unfollow"}
      [] op = "create" -> {"playlist_items"}
      [] op = "cover_image" -> {"create"}
      [] op = "download" -> {"cover_image"}
      [] op = "upload_cover" -> {"download"}
      [] op = "add_items" -> CoverOps \cup {"add_items"}
      [] op = "write_latest" -> CoverOps \cup {"add_items"}

C5_DeleteAllBeforeCreate ==
    \A p \in Procs :
        \A k \in CallsOf(p, "create") :
            /\ \A c \in Range(found[p]) \ {SOURCE_PLAYLIST_ID} :
                   \E i \in CallsOf(p, "unfollow") : i < k /\ calls[p][i].target = c
            /\ \A j \in CallsOf(p, "unfollow") :
                   j < k /\ calls[p][j].target # calls[p][k].target

\* the create call of a run that had located two clones, the source being
\* among what find_clones returned
C5_Witness ==
    /\ \E k \in CallsOf(1, "create") : calls[1][k].ok
    /\ Len(found[1]) = 3
    /\ SOURCE_PLAYLIST_ID \in Range(found[1])

(***************************************************************************)
(* C6: a run that completes after a run that failed or was killed leaves   *)
(* exactly one clone of the source in the library, holding the source's    *)
(* track sequence; the clone the earlier run created is gone.              *)
(***************************************************************************)
C6_RerunRecovers ==
    \A p \in Procs :
        (pc[p] = "done" /\ prev.status \in {"failed", "crashed"}) =>
            /\ RecognisedClones = {new_playlist[p]}
            /\ ItemUris(playlists[new_playlist[p]].items) = SourceTracks
            /\ prev.created # None => prev.created \notin Range(library)

\* the earlier run ended with its clone partially populated
C6_Witness ==
    /\ pc[1] = "done"
    /\ prev.status \in {"failed", "crashed"}
    /\ prev.created # None
    /\ Len(playlists[prev.created].items) = BatchSize
    /\ Len(SourceTracks) > BatchSize

(***************************************************************************)
(* C7, as claimed: when a run ends with a fatal error, the library holds   *)
(* no playlist that run created.                                           *)
(***************************************************************************)
C7_NoCloneOnFatalError ==
    \A p \in Procs : pc[p] = "failed" => CreatedThisRun = {}

(***************************************************************************)
(* C7, amended: a run that ends with a fatal error has created no playlist *)
(* unless the failing call is an add-items batch; then the playlist it     *)
(* created is in the library, holding the batches appended before.         *)
(***************************************************************************)
C7_CloneOnlyWhenAddItemsFails ==
    \A p \in Procs :
        pc[p] = "failed" =>
            IF LastCall(p).op = "add_items"
            THEN /\ CreatedThisRun = {new_playlist[p]}
                 /\ ItemUris(playlists[new_playlist[p]].items)
                        = SubSeq(SourceTracks, 1, batch_i[p])
            ELSE /\ CreatedThisRun = {}
                 /\ new_playlist[p] = None

\* the second add-items batch failed
C7_Witness ==
    /\ pc[1] = "failed"
    /\ LastCall(1).op = "add_items"
    /\ batch_i[1] = BatchSize
    /\ new_playlist[1] \in Range(library)

(***************************************************************************)
(* C8: find_clones(X) returns exactly the playlists of the library whose   *)
(* description was written with the marker for X, and none written for     *)
(* another source or without a marker.                                     *)
(***************************************************************************)
C8_FindClonesExact ==
    \A p \in Procs :
        JustScanned(p) =>
            found[p] = SelectSeq(library,
                           LAMBDA pid : playlists[pid].tag = SOURCE_PLAYLIST_ID)

\* the library scanned holds two playlists tagged for X, one tagged for Y and
\* the untagged ones
C8_Witness ==
    /\ JustScanned(1)
    /\ {OldA, OldB} \subseteq Range(found[1])
    /\ {OtherC, OtherU, OtherT} \subseteq Range(library)

(***************************************************************************)
(* C9, as claimed: the result of find_clones never contains the source     *)
(* playlist's own ID.                                                      *)
(***************************************************************************)
C9_FindClonesExcludesSource ==
    \A p \in Procs : JustScanned(p) => SOURCE_PLAYLIST_ID \notin Range(found[p])

(***************************************************************************)
(* C9, amended: the result of find_clones contains the source's ID exactly *)
(* when the source is in the library with a marker for its own ID; the     *)
(* caller's filter takes it out, keeping the others in order.              *)
(***************************************************************************)
C9_SourceFilteredByCaller ==
    \A p \in Procs :
        JustScanned(p) =>
            /\ SOURCE_PLAYLIST_ID \in Range(found[p])
                   <=> /\ SOURCE_PLAYLIST_ID \in Range(library)
                       /\ playlists[SOURCE_PLAYLIST_ID].tag = SOURCE_PLAYLIST_ID
            /\ SOURCE_PLAYLIST_ID \notin Range(clones[p])
            /\ Range(found[p]) \ {SOURCE_PLAYLIST_ID} = Range(clones[p])

\* the source, tagged with its own ID, was found beside an earlier clone
C9_Witness ==
    /\ JustScanned(1)
    /\ SOURCE_PLAYLIST_ID \in Range(found[1])
    /\ OldA \in Range(clones[1])

(***************************************************************************)
(* C10: for every source ID the configuration yields and any text around   *)
(* the marker, extraction from the stored description returns that ID.     *)
(***************************************************************************)
C10_MarkerRoundTrip == m_pc = "read" => m_out = m_sid


(***************************************************************************)
(* The start of the process: the module-level code, then main up to its    *)
(* read of the source playlist.                                            *)
(***************************************************************************)
InitConfig ==
    /\ Unconfigured
    /\ env_missing \in SUBSET EnvKeys
    /\ m_lead = <<>> /\ m_trail = <<>>
    /\ playlists = Earlier @@ (SrcX :>
           Playlist("Road Trip", <<>>, MixedItems, <<>>, None, 0))
    /\ library = <<OldA>>
    /\ MainIdle

NextConfig ==
    \/ LoadConfig
    \/ \E p \in SeqProcs : Start(p) \/ GetToken(p) \/ CurrentUser(p) \/ ReadSource(p)

SpecConfig == InitConfig /\ [][NextConfig]_vars

(***************************************************************************)
(* C11: normalize_playlist_id returns the bare ID for each of its          *)
(* reference forms: the ID with whitespace around it, a web URL with or    *)
(* without a query string or a further path segment, and the URI form.     *)
(***************************************************************************)
C11_NormalizeYieldsBareId ==
    (m_pc \notin {"off", "env", "config_error"} /\ m_form \in ValidForms)
        => /\ m_sid = m_id
           /\ SOURCE_PLAYLIST_ID = m_id

\* a URL with a query string has been normalised to a playlist ID
C11_Witness ==
    /\ m_pc = "config"
    /\ m_form = "url_query"
    /\ m_id = ValidId
    /\ SOURCE_PLAYLIST_ID = ValidId


RECURSIVE Flatten(_)
Flatten(seqs) == IF seqs = <<>> THEN <<>> ELSE Head(seqs) \o Flatten(Tail(seqs))

\* the add-items calls of p, in call order, and the batches they carried
AddItemsCalls(p) == SelectSeq(calls[p], LAMBDA c : c.op = "add_items")
Batches(p) == [k \in 1..Len(AddItemsCalls(p)) |-> AddItemsCalls(p)[k].arg]

\* the cover-copy calls of p that failed
FailedCoverCalls(p) ==
    {i \in 1..Len(calls[p]) : calls[p][i].op \in CoverOps /\ ~calls[p][i].ok}

(***************************************************************************)
(* C12: a run that has appended all its batches has issued ceil(n/100)     *)
(* add-items calls for the n tracks of the source, each of at most 100     *)
(* items, and the batches in call order make up the source's track         *)
(* sequence, which is then the content of the new playlist.                *)
(***************************************************************************)
C12_BatchesCoverTracks ==
    \A p \in Procs :
        pc[p] \in {"write", "done"} =>
            /\ Len(Batches(p)) = (Len(SourceTracks) + BatchSize - 1) \div BatchSize
            /\ \A k \in 1..Len(Batches(p)) :
                   /\ Len(Batches(p)[k]) <= BatchSize
                   /\ AddItemsCalls(p)[k].target = new_playlist[p]
            /\ Flatten(Batches(p)) = SourceTracks
            /\ ItemUris(playlists[new_playlist[p]].items) = SourceTracks

\* a source of more than one batch of tracks has been copied in two calls
C12_Witness ==
    /\ pc[1] = "done"
    /\ Len(SourceTracks) = BatchSize + OverBatch
    /\ Len(Batches(1)) = 2
    /\ Len(Batches(1)[1]) = BatchSize
    /\ Len(Batches(1)[2]) = OverBatch

(***************************************************************************)
(* C13: a failed cover listing, image download or image upload does not    *)
(* end the run: it goes on to the track batches, or to the redirect        *)
(* artifact when there are none, and a run that completes after such a     *)
(* failure has appended every batch and written the artifact.              *)
(***************************************************************************)
C13_CoverFailureNotFatal ==
    \A p \in Procs :
        /\ (HasCalls(p) /\ LastCall(p).op \in CoverOps /\ ~LastCall(p).ok)
               => pc[p] \in {"add_items", "write", "crashed"}
        /\ (pc[p] = "done" /\ FailedCoverCalls(p) # {})
               => /\ Flatten(Batches(p)) = SourceTracks
                  /\ ItemUris(playlists[new_playlist[p]].items) = SourceTracks
                  /\ LastCall(p).op = "write_latest"
                  /\ latest = spotify_url(new_playlist[p])

\* a run whose cover upload failed has appended two batches and completed
C13_Witness ==
    /\ pc[1] = "done"
    /\ \E i \in FailedCoverCalls(1) : calls[1][i].op = "upload_cover"
    /\ Len(Batches(1)) = 2
    /\ latest = spotify_url(new_playlist[1])

(***************************************************************************)
(* C14: the image-upload call is never issued for a downloaded payload     *)
(* over the platform's ceiling of 256,000 bytes.                           *)
(***************************************************************************)
C14_OversizeNeverUploaded ==
    \A p \in Procs :
        CallsOf(p, "upload_cover") # {} => image_bytes[p] <= CoverCeiling

\* a playlist ID: the 22 characters of [A-Za-z0-9] the marker pattern accepts
IsPlaylistId(s) == Len(s) = IdLen /\ \A i \in 1..Len(s) : s[i] \in Alnum

\* a required environment value is missing, or the source reference does not
\* come out of normalisation as a playlist ID
ConfigurationError ==
    \/ env_missing # {}
    \/ ~IsPlaylistId(normalize_playlist_id(Strip(m_raw)))

(***************************************************************************)
(* C15: with a configuration error (a required environment value missing,  *)
(* or a source reference that cannot be parsed to a playlist ID) the       *)
(* process issues no remote call.                                          *)
(***************************************************************************)
C15_ConfigErrorBeforeAnyCall ==
    ConfigurationError => \A p \in Procs : calls[p] = <<>>

\* the remote calls that change a playlist or the library's view of it
MutatingOps == {"unfollow", "add_items", "upload_cover"}

(***************************************************************************)
(* C16: no step of a run, of a failing run included, changes the source    *)
(* playlist: its name, items and cover stay as they are, it stays in or    *)
(* out of the library, and no unfollow, add-items or cover-upload call has *)
(* the source ID as its target.                                            *)
(***************************************************************************)
C16_SourceNeverMutated ==
    [][ /\ playlists'[SOURCE_PLAYLIST_ID] = playlists[SOURCE_PLAYLIST_ID]
        /\ (SOURCE_PLAYLIST_ID \in Range(library'))
               = (SOURCE_PLAYLIST_ID \in Range(library))
        /\ \A p \in Procs :
               (calls'[p] # calls[p] /\ calls'[p] # <<>>) =>
                   LET c == calls'[p][Len(calls'[p])]
                   IN  c.op \in MutatingOps => c.target # SOURCE_PLAYLIST_ID
      ]_vars

\* a run has unfollowed, uploaded a cover, appended tracks and completed,
\* with the source in the library and marked with its own ID
C16_Witness ==
    /\ pc[1] = "done"
    /\ SOURCE_PLAYLIST_ID \in Range(found[1])
    /\ SOURCE_PLAYLIST_ID \in Range(library)
    /\ \E i \in CallsOf(1, "unfollow") : calls[1][i].ok
    /\ \E i \in CallsOf(1, "upload_cover") : calls[1][i].ok
    /\ \E i \in CallsOf(1, "add_items") : calls[1][i].ok

\* the reads main makes before delete_old_clones_keep_newest
EarlyReads == {"token", "current_user", "playlist"}

(***************************************************************************)
(* C18: a run that ends because its token exchange, current-user read or   *)
(* source metadata read failed has issued no unfollow call, nor any other  *)
(* call but those reads, and the library is the one it started with.       *)
(***************************************************************************)
C18_EarlyFailureKeepsClones ==
    \A p \in Procs :
        (pc[p] = "failed" /\ LastCall(p).op \in EarlyReads) =>
            /\ CallsOf(p, "unfollow") = {}
            /\ \A i \in 1..Len(calls[p]) : calls[p][i].op \in EarlyReads
            /\ library = begun[p].library

\* the source read has failed with two clones of the source in the library
C18_Witness ==
    /\ pc[1] = "failed"
    /\ LastCall(1).op = "playlist"
    /\ {OldA, OldB} \subseteq RecognisedClones

(***************************************************************************)
(* C19: latest.html is written only after the create call and every        *)
(* add-items batch of the run have succeeded, and it then points at the    *)
(* playlist the run created; a run that has not got that far, or has       *)
(* failed, leaves the artifact as it found it.                             *)
(***************************************************************************)
C19_ArtifactWrittenLast ==
    \A p \in Procs :
        /\ CallsOf(p, "write_latest") # {} =>
               /\ \E i \in CallsOf(p, "create") :
                      calls[p][i].ok /\ calls[p][i].target = new_playlist[p]
               /\ \A k \in 1..Len(AddItemsCalls(p)) : AddItemsCalls(p)[k].ok
               /\ Flatten(Batches(p)) = track_uris[p]
               /\ LastCall(p).op = "write_latest"
               /\ latest = spotify_url(new_playlist[p])
        /\ pc[p] \in Running \cup {"failed", "crashed"} =>
               /\ CallsOf(p, "write_latest") = {}
               /\ latest = begun[p].latest

\* a failed run has unfollowed the clone of the run before it, and the
\* artifact still points at that clone
C19_Witness ==
    /\ pc[1] = "failed"
    /\ prev.status = "done"
    /\ latest = spotify_url(prev.created)
    /\ prev.created \notin Range(library)

(***************************************************************************)
(* Two processes running main against the same account and source, with    *)
(* nothing between them but the platform: their calls interleave freely.   *)
(***************************************************************************)
OverlapProcs == {1, 2}

InitOverlap ==
    /\ SOURCE_PLAYLIST_ID = SrcX
    /\ library \in {<<OldA>>, <<OldA, OldB>>}
    /\ \E images \in {<<>>, <<SmallImage>>} :
         playlists = Earlier @@ (SrcX :>
             Playlist("Road Trip", <<>>, MixedItems, images, None, 0))
    /\ MainIdle
    /\ MarkerIdle

\* each process is one invocation of the program: it runs main once
NextOverlap == \E p \in OverlapProcs : pc[p] \notin Terminal /\ Run(p)

SpecOverlap == InitOverlap /\ [][NextOverlap]_vars

(***************************************************************************)
(* C17: nothing in the program keeps two runs apart. When all processes    *)
(* have completed a run and more than one clone of the source is in the    *)
(* library, runs have overlapped: with one run after another that state is *)
(* not reached, with overlapping runs it is.                               *)
(***************************************************************************)
C17_DuplicatesOnlyByOverlap ==
    ((\A p \in OverlapProcs : pc[p] = "done") /\ Cardinality(RecognisedClones) > 1)
        => overlapped

\* both runs have scanned the library before either created its playlist, and
\* both have completed: two clones remain
C17_Witness ==
    /\ \A p \in OverlapProcs : pc[p] = "done"
    /\ overlapped
    /\ \A p \in OverlapProcs :
           /\ new_playlist[p] \in RecognisedClones
           /\ new_playlist[p] \notin Range(found[3 - p])
    /\ new_playlist[1] # new_playlist[2]

=============================================================================
